---------------------------- MODULE Spec2Model ----------------------------
(***************************************************************************)
(* A model of install_deps.py: the dependency fetch-and-build script.      *)
(*                                                                         *)
(* Text is modelled as sequences of one-character strings, so that the     *)
(* string operations of the script (strip, split, index, startswith) are   *)
(* computed as Python computes them.                                       *)
(***************************************************************************)
EXTENDS Integers, Sequences, FiniteSets, TLC

---------------------------------------------------------------------------
(* Bounds of the model *)

\* the number of runs of the script in one behaviour
MaxRuns == 2

\* the number of package records in a descriptor list
MaxPkgs == 2

---------------------------------------------------------------------------
(* Python string primitives *)

\* the whitespace characters of str.strip(), str.split() and the regex \s
WS == {" ", "\t", "\n"}

Digits == {"0", "1", "2", "3", "4", "5", "6", "7", "8", "9"}

RECURSIVE LStrip(_)
LStrip(s) == IF s # <<>> /\ Head(s) \in WS THEN LStrip(Tail(s)) ELSE s

RECURSIVE RStrip(_)
RStrip(s) ==
    IF s # <<>> /\ s[Len(s)] \in WS THEN RStrip(SubSeq(s, 1, Len(s) - 1)) ELSE s

\* str.strip()
Strip(s) == RStrip(LStrip(s))

\* str.find(c) + 1: the 1-based place of the first c in s, 0 when there is none
RECURSIVE IndexOf(_, _)
IndexOf(s, c) ==
    IF s = <<>> THEN 0
    ELSE IF Head(s) = c THEN 1
    ELSE LET r == IndexOf(Tail(s), c) IN IF r = 0 THEN 0 ELSE r + 1

\* str.split(c) with an explicit separator: empty parts are kept
RECURSIVE Split(_, _)
Split(s, c) ==
    LET i == IndexOf(s, c)
    IN  IF i = 0 THEN <<s>>
        ELSE <<SubSeq(s, 1, i - 1)>> \o Split(SubSeq(s, i + 1, Len(s)), c)

\* str.split() with no separator: the whitespace-delimited tokens
RECURSIVE SplitWS(_)
SplitWS(s) ==
    LET t == LStrip(s)
    IN  IF t = <<>> THEN <<>>
        ELSE LET ends == {i \in 1..Len(t) : t[i] \in WS}
                 e == IF ends = {} THEN Len(t) + 1
                      ELSE CHOOSE i \in ends : \A j \in ends : i <= j
             IN  <<SubSeq(t, 1, e - 1)>> \o SplitWS(SubSeq(t, e, Len(t)))

\* a in b, for strings
Contains(b, a) ==
    \E i \in 0..(Len(b) - Len(a)) : SubSeq(b, i + 1, i + Len(a)) = a

\* the concatenation of a sequence of strings
RECURSIVE Concat(_)
Concat(ss) == IF ss = <<>> THEN <<>> ELSE Head(ss) \o Concat(Tail(ss))

---------------------------------------------------------------------------
(* zlib.crc32 over the UTF-8 bytes of a string, and the decimal text of     *)
(* its result.  The 32-bit register is kept as two 16-bit halves <<hi, lo>>.*)

\* str.encode(): the byte of each character the model's URLs are written in
Ord ==
    [c \in {"/", "8", "9", ":", "a", "b", "c", "d", "g", "h", "p", "t", "u", "v", "x"} |->
        CASE c = "/" -> 47
          [] c = "8" -> 56
          [] c = "9" -> 57
          [] c = ":" -> 58
          [] c = "a" -> 97
          [] c = "b" -> 98
          [] c = "c" -> 99
          [] c = "d" -> 100
          [] c = "g" -> 103
          [] c = "h" -> 104
          [] c = "p" -> 112
          [] c = "t" -> 116
          [] c = "u" -> 117
          [] c = "v" -> 118
          [] c = "x" -> 120]

\* the bit of weight k in a ^ b
XorBit(a, b, k) == (((a \div k) + (b \div k)) % 2) * k

\* a ^ b for two bytes
Xor8(a, b) ==
    XorBit(a, b, 1) + XorBit(a, b, 2) + XorBit(a, b, 4) + XorBit(a, b, 8)
    + XorBit(a, b, 16) + XorBit(a, b, 32) + XorBit(a, b, 64)
    + XorBit(a, b, 128)

\* a ^ b for two 16-bit numbers
Xor16(a, b) == Xor8(a % 256, b % 256) + 256 * Xor8(a \div 256, b \div 256)

\* one bit of the reflected CRC-32 (polynomial 0xEDB88320)
CrcShift(r) ==
    LET hi == r[1] \div 2
        lo == (r[2] \div 2) + 32768 * (r[1] % 2)
    IN  IF r[2] % 2 = 1 THEN <<Xor16(hi, 60856), Xor16(lo, 33568)>>
        ELSE <<hi, lo>>

RECURSIVE CrcBits(_, _)
CrcBits(r, n) == IF n = 0 THEN r ELSE CrcShift(CrcBits(r, n - 1))

\* zlib's table: the entry of the byte n is eight shifts of n
CrcTable == [n \in 0..255 |-> CrcBits(<<0, n>>, 8)]

\* the 32-bit registers
Reg == (0..65535) \X (0..65535)

\* one byte b: table[(crc ^ b) & 0xFF] ^ (crc >> 8)
CrcByte[r \in Reg, b \in 0..255] ==
    LET t == CrcTable[Xor8(r[2] % 256, b)]
    IN  <<Xor16(r[1] \div 256, t[1]),
          Xor16((r[2] \div 256) + 256 * (r[1] % 256), t[2])>>

\* the register after the bytes of s, from the initial register 0xFFFFFFFF
RECURSIVE CrcBytes(_)
CrcBytes(s) ==
    IF s = <<>> THEN <<65535, 65535>>
    ELSE CrcByte[CrcBytes(SubSeq(s, 1, Len(s) - 1)), Ord[s[Len(s)]]]

\* zlib.crc32(bytes): the register's final complement
Crc32(s) ==
    LET r == CrcBytes(s)
    IN  <<Xor16(r[1], 65535), Xor16(r[2], 65535)>>

DigitChar == <<"0", "1", "2", "3", "4", "5", "6", "7", "8", "9">>

\* str(int) of a 32-bit value <<hi, lo>>: long division by ten
RECURSIVE Decimal(_)
Decimal(r) ==
    LET mid == (r[1] % 10) * 65536 + r[2]
        q   == <<r[1] \div 10, mid \div 10>>
        d   == DigitChar[(mid % 10) + 1]
    IN  IF q = <<0, 0>> THEN <<d>> ELSE Decimal(q) \o <<d>>

\* int(str) of the text between two ':' of a ledger line.  An integer is held
\* as its canonical decimal text (no leading zero); BadInt is ValueError.
BadInt == <<"ValueError">>

RECURSIVE DropZeros(_)
DropZeros(s) == IF Len(s) > 1 /\ Head(s) = "0" THEN DropZeros(Tail(s)) ELSE s

ParseInt(s) ==
    LET t == Strip(s)
    IN  IF t # <<>> /\ \A i \in 1..Len(t) : t[i] \in Digits
        THEN DropZeros(t) ELSE BadInt

---------------------------------------------------------------------------
(* The descriptor records the runs are given *)

\* package names: a plain one, and one that holds a ':'
Names == { <<"a">>, <<"a", ":", "b">> }

\* source URLs: U1 and U2 end in the same file name; U1 and U3 have the same
\* CRC-32 (2167839088)
U1 == <<"h", "t", "t", "p", ":", "/", "/", "h", "/", "d", "v", "d", "b", "a">>
U2 == <<"h", "t", "t", "p", ":", "/", "/", "g", "/", "d", "v", "d", "b", "a">>
U3 == <<"h", "t", "t", "p", ":", "/", "/", "h", "/", "x", "9", "8", "c", "u">>
URLs == {U1, U2, U3}

PKGType_CMAKE == <<"c", "m", "a", "k", "e">>
PKGType_HEADER_ONLY == <<"h", "e", "a", "d", "e", "r">>
PKGType_CONFIGURE == <<"c", "o", "n", "f", "i", "g", "/", "m", "a", "k", "e">>
PKGType_BJAM == <<"b", "o", "o", "s", "t">>

\* the keys of build_mapper
build_mapper == {PKGType_CMAKE, PKGType_HEADER_ONLY, PKGType_CONFIGURE, PKGType_BJAM}

\* a type with no driver
UnknownType == <<"s", "c", "o", "n", "s">>

Rec(name, type, src) == [name |-> name, type |-> type, src |-> src]

\* the raw records (dicts) of the descriptors: the plain name with each URL,
\* the name with a ':', a type with no driver, and the header driver given
\* without its `interface` attribute
Records ==
    { Rec(<<"a">>, PKGType_CMAKE, U1),
      Rec(<<"a">>, PKGType_CMAKE, U2),
      Rec(<<"a">>, PKGType_CMAKE, U3),
      Rec(<<"a", ":", "b">>, PKGType_CMAKE, U1),
      Rec(<<"a">>, UnknownType, U1),
      Rec(<<"a", ":", "b">>, PKGType_HEADER_ONLY, U2) }

RECURSIVE SeqsUpTo(_, _)
SeqsUpTo(S, n) ==
    IF n = 0 THEN { <<>> }
    ELSE LET shorter == SeqsUpTo(S, n - 1)
         IN  shorter \cup { Append(q, x) : q \in shorter, x \in S }

\* the descriptor lists a run may load
Descriptors == SeqsUpTo(Records, MaxPkgs)

\* urllib.parse.urlparse(src).path, for a URL with no query, fragment or
\* parameters: what follows the host of scheme://host, else what follows the
\* scheme
UrlPath(u) ==
    LET i == IndexOf(u, ":")
        rest == SubSeq(u, i + 1, Len(u))
    IN  IF i > 0 /\ Len(rest) >= 2 /\ SubSeq(rest, 1, 2) = <<"/", "/">>
        THEN LET host == SubSeq(rest, 3, Len(rest))
                 j == IndexOf(host, "/")
             IN  IF j = 0 THEN <<>> ELSE SubSeq(host, j, Len(host))
        ELSE rest

\* Source.__init__ raises KeyError: the header driver's `interface` is missing
SourceRaises(source) ==
    source.type = PKGType_HEADER_ONLY /\ "interface" \notin DOMAIN source

\* Source.__init__: the fields of a package the loop uses
Source(source) ==
    LET name == Strip(source.name)
        src == Strip(source.src)
        parts == Split(UrlPath(src), "/")
    IN  [name |-> name, type |-> Strip(source.type), src |-> src,
         packfile |-> name \o parts[Len(parts)]]

---------------------------------------------------------------------------
(* The install ledger: third_party/installed.txt, as its lines *)

\* zlib.crc32(str.encode(src)), as the decimal text of the integer
UrlHashes == [u \in URLs |-> Decimal(Crc32(u))]

url_hash(src) == UrlHashes[src]

\* write_success in a mode that truncates the file
write_success_truncating(led, pkg) ==
    << pkg.name \o <<":">> \o url_hash(pkg.src) \o <<"\n">> >>

\* write_success: append "name:hash\n"
write_success(led, pkg) ==
    Append(led, pkg.name \o <<":">> \o url_hash(pkg.src) \o <<"\n">>)

\* the loop of is_installed over the lines: "found", "notfound", or "error" for
\* the exception (IndexError, ValueError) that ends the scan
RECURSIVE ScanLedger(_, _, _)
ScanLedger(lines, name, srchash) ==
    IF lines = <<>> THEN "notfound"
    ELSE LET raw == Split(Head(lines), ":")
             parts == [i \in 1..Len(raw) |-> Strip(raw[i])]
         IN  IF name # parts[1] THEN ScanLedger(Tail(lines), name, srchash)
             ELSE IF Len(parts) < 2 \/ ParseInt(parts[2]) = BadInt THEN "error"
             ELSE IF srchash = ParseInt(parts[2]) THEN "found"
             ELSE ScanLedger(Tail(lines), name, srchash)

\* is_installed: True on the first matching line; an exception gives False
is_installed(led, pkg) == ScanLedger(led, pkg.name, url_hash(pkg.src)) = "found"

---------------------------------------------------------------------------
(* The runs of the script: the state that lasts between runs, and the      *)
(* position of the run in progress                                         *)

VARIABLES
    tpExists,   \* the third_party directory exists
    ledger,     \* the lines of third_party/installed.txt (none: no file)
    entries,    \* for each ledger line, the (name, src) it was written for
    cache,      \* third_party_cache: file name -> the URL its bytes came from
    run,        \* the run in progress: its number, arguments and sources
    prev,       \* of the run before it: it succeeded, it had the same sources
    pc,         \* the place of the run in the script
    idx,        \* the place of the package loop in sources
    failed,     \* the list `failed`
    events,     \* what the run has done so far, in order
    find,       \* a call of find_shortest_path_to: its inputs and its result
    parser,     \* a DepFileParser at work on a text
    opt         \* a record of the package list on its way to compute_options

vars == <<tpExists, ledger, entries, cache, run, prev, pc, idx, failed, events,
          find, parser, opt>>

\* the variables of the runs
runVars == <<tpExists, ledger, entries, cache, run, prev, pc, idx, failed, events>>

\* no call of find_shortest_path_to, no parser, no record's options, is at work
NoFind == [state |-> "none"]
NoParser == [status |-> "none"]
NoOpt == [state |-> "none"]

\* a cache file of size zero
EmptyFile == "empty"

\* no run before the first
NoRun == [n |-> 0, force |-> FALSE, purge |-> FALSE, sources |-> <<>>]

\* nothing known of the run before
NoPrev == [ok |-> FALSE, same |-> FALSE]

Stopped == {"idle", "done", "aborted", "exit0"}

Ev(e, i) == [ev |-> e, i |-> i]

\* the package the loop is at
Pkg == Source(run.sources[idx])

\* every package of the run was installed or found installed
AllSucceeded ==
    /\ pc = "done"
    /\ \A i \in 1..Len(run.sources) :
          \E k \in 1..Len(events) :
              events[k].i = i /\ events[k].ev \in {"commit", "skip"}

RunInit ==
    /\ tpExists = FALSE
    /\ ledger = <<>>
    /\ entries = <<>>
    /\ cache = <<>>
    /\ run = NoRun
    /\ prev = NoPrev
    /\ pc = "idle"
    /\ idx = 0
    /\ failed = <<>>
    /\ events = <<>>

\* lines 270-309: purge, the two directories, the package list
BeginRun(force, purge, sources) ==
    /\ pc \in Stopped
    /\ UNCHANGED <<find, parser, opt>>
    /\ run' = [n |-> run.n + 1, force |-> force, purge |-> purge,
               sources |-> sources]
    /\ prev' = [ok |-> AllSucceeded, same |-> sources = run.sources]
    /\ idx' = 1
    /\ failed' = <<>>
    /\ UNCHANGED cache
    /\ IF purge /\ ~tpExists
       THEN \* shutil.rmtree of a missing directory raises
            /\ pc' = "aborted"
            /\ events' = <<>>
            /\ UNCHANGED <<tpExists, ledger, entries>>
       ELSE /\ tpExists' = TRUE
            /\ ledger' = IF purge THEN <<>> ELSE ledger
            /\ entries' = IF purge THEN <<>> ELSE entries
            /\ events' = IF purge \/ ~tpExists THEN <<Ev("mkroot", 0)>> ELSE <<>>
            /\ pc' = IF sources = <<>> THEN "exit0" ELSE "loop"

\* the script is started, at most MaxRuns times
StartRun(force, purge, sources) ==
    /\ run.n < MaxRuns
    /\ BeginRun(force, purge, sources)

\* what an exception raised by the strategy leads to (line 746: raise)
AfterBuildErrorSwallowed == "attrib"

AfterBuildError == "aborted"

\* line 708: the package is skipped
SkipInstalled(led, pkg, force) == is_installed(led, pkg) /\ ~force

\* lines 706-710: the head of the loop
LoopHead ==
    /\ pc = "loop"
    /\ UNCHANGED <<find, parser, opt>>
    /\ idx <= Len(run.sources)
    /\ UNCHANGED <<tpExists, ledger, entries, cache, run, prev, failed>>
    /\ IF SourceRaises(run.sources[idx])
       THEN pc' = "aborted" /\ UNCHANGED <<idx, events>>
       ELSE IF SkipInstalled(ledger, Pkg, run.force)
       THEN /\ events' = Append(events, Ev("skip", idx))
            /\ idx' = idx + 1
            /\ pc' = "loop"
       ELSE /\ pc' = "mkdirs"
            /\ UNCHANGED <<idx, events>>

\* lines 714-719: the working directories and the log file
MakeDirs ==
    /\ pc = "mkdirs"
    /\ UNCHANGED <<find, parser, opt>>
    /\ events' = Append(events, Ev("mkdirs", idx))
    /\ pc' = "fetch"
    /\ UNCHANGED <<tpExists, ledger, entries, cache, run, prev, idx, failed>>

\* line 723: the archive is not in the cache, or is empty there
need_dl(c, pkg) == pkg.packfile \notin DOMAIN c \/ c[pkg.packfile] = EmptyFile

\* lines 723-730: download unless cached; the file must exist and not be empty
Fetch ==
    /\ pc = "fetch"
    /\ UNCHANGED <<find, parser, opt>>
    /\ UNCHANGED <<tpExists, ledger, entries, run, prev, idx, failed>>
    /\ IF need_dl(cache, Pkg)
       THEN \E outcome \in {"ok", "neterr", "empty"} :
               /\ events' = Append(events,
                      Ev(IF outcome = "ok" THEN "download" ELSE "fetchfail", idx))
               /\ cache' = CASE outcome = "ok" -> (Pkg.packfile :> Pkg.src) @@ cache
                             [] outcome = "empty" -> (Pkg.packfile :> EmptyFile) @@ cache
                             [] OTHER -> cache
               /\ pc' = IF outcome = "ok" THEN "unpack" ELSE "aborted"
       ELSE /\ events' = Append(events, Ev("cached", idx))
            /\ pc' = "unpack"
            /\ UNCHANGED cache

\* line 734: shutil.unpack_archive
Unpack ==
    /\ pc = "unpack"
    /\ UNCHANGED <<find, parser, opt>>
    /\ UNCHANGED <<tpExists, ledger, entries, cache, run, prev, idx, failed>>
    /\ \E ok \in BOOLEAN :
          /\ events' = Append(events, Ev(IF ok THEN "unpack" ELSE "unpackfail", idx))
          /\ pc' = IF ok THEN "build" ELSE "aborted"

\* lines 738-746: the strategy of the package's type
Build ==
    /\ pc = "build"
    /\ UNCHANGED <<find, parser, opt>>
    /\ UNCHANGED <<tpExists, ledger, entries, cache, run, prev, idx>>
    /\ \E ok \in BOOLEAN :
          IF Pkg.type \in build_mapper /\ ok
          THEN /\ events' = Append(events, Ev("build", idx))
               /\ pc' = "attrib"
               /\ UNCHANGED failed
          ELSE /\ events' = Append(events,
                     Ev(IF Pkg.type \in build_mapper THEN "buildfail" ELSE "badtype", idx))
               /\ failed' = Append(failed, Pkg.name)
               /\ pc' = AfterBuildError

\* find_write_attribution with no try: a missing license file, or an error
\* while the fragment is read or written, ends the run
AfterAttributionRaising(written) == IF written THEN "clean" ELSE "aborted"

\* the loop with no cleanup between attribution and write_success
AfterAttributionNoCleanup(written) == "commit"

\* where the loop goes after find_write_attribution (line 750), which catches
\* every Exception of its body and prints a warning
AfterAttribution(written) == "clean"

\* line 750: find_write_attribution: the fragment is written, or no license
\* file is found or an error occurs and a warning is printed
Attribution ==
    /\ pc = "attrib"
    /\ UNCHANGED <<find, parser, opt>>
    /\ \E written \in BOOLEAN :
          /\ events' = Append(events,
                 Ev(IF written THEN "attrib" ELSE "attribwarn", idx))
          /\ pc' = AfterAttribution(written)
    /\ UNCHANGED <<tpExists, ledger, entries, cache, run, prev, idx, failed>>

\* line 754: the working directory is removed
Clean ==
    /\ pc = "clean"
    /\ UNCHANGED <<find, parser, opt>>
    /\ events' = Append(events, Ev("clean", idx))
    /\ pc' = "commit"
    /\ UNCHANGED <<tpExists, ledger, entries, cache, run, prev, idx, failed>>

\* lines 755-756: write_success, then the next package
Commit ==
    /\ pc = "commit"
    /\ UNCHANGED <<find, parser, opt>>
    /\ ledger' = write_success(ledger, Pkg)
    /\ entries' = Append(entries, [name |-> Pkg.name, src |-> Pkg.src])
    /\ events' = Append(events, Ev("commit", idx))
    /\ idx' = idx + 1
    /\ pc' = "loop"
    /\ UNCHANGED <<tpExists, cache, run, prev, failed>>

\* lines 758-761: the loop is over: the names in `failed` are printed
Report ==
    /\ pc = "loop"
    /\ UNCHANGED <<find, parser, opt>>
    /\ idx > Len(run.sources)
    /\ events' = Append(events, Ev("report", 0))
    /\ pc' = "merge"
    /\ UNCHANGED <<tpExists, ledger, entries, cache, run, prev, idx, failed>>

\* lines 765-783: rebuild_attrib_header: the fragments are read and the header
\* is written, or open() raises (third_party/include may not exist)
MergeAttribution ==
    /\ pc = "merge"
    /\ UNCHANGED <<find, parser, opt>>
    /\ \E ok \in BOOLEAN :
          /\ events' = Append(events, Ev(IF ok THEN "merge" ELSE "mergefail", 0))
          /\ pc' = IF ok THEN "done" ELSE "aborted"
    /\ UNCHANGED <<tpExists, ledger, entries, cache, run, prev, idx, failed>>

Init == RunInit /\ find = NoFind /\ parser = NoParser /\ opt = NoOpt

RunNext ==
    \/ \E force \in BOOLEAN, purge \in BOOLEAN, sources \in Descriptors :
          StartRun(force, purge, sources)
    \/ LoopHead
    \/ MakeDirs
    \/ Fetch
    \/ Unpack
    \/ Build
    \/ Attribution
    \/ Clean
    \/ Commit
    \/ Report
    \/ MergeAttribution

Next == RunNext

Spec == Init /\ [][Next]_vars

---------------------------------------------------------------------------
(* Properties of the runs *)

HasEv(e, i) == \E k \in 1..Len(events) : events[k] = Ev(e, i)

LastEv == events[Len(events)]

IsPrefix(s, t) == Len(s) <= Len(t) /\ SubSeq(t, 1, Len(s)) = s

\* the fetch, unpack or build step of package i failed
StepFailed(i) ==
    HasEv("fetchfail", i) \/ HasEv("unpackfail", i) \/ HasEv("buildfail", i)

\* package i was consulted against the ledger and skipped, or attempted
Consulted(i) == HasEv("skip", i) \/ HasEv("mkdirs", i)

\* the fetch, unpack and build steps of package i all completed
PipelineOk(i) ==
    /\ HasEv("download", i) \/ HasEv("cached", i)
    /\ HasEv("unpack", i)
    /\ HasEv("build", i)
    /\ ~StepFailed(i) /\ ~HasEv("badtype", i)

\* C1 (as claimed): when the fetch, unpack or build step of a package fails,
\* every later package of the list is still consulted against the ledger
\* (skipped or attempted) by the time the run has ended.
C1_FailureAbortsOnlyThatPackage ==
    pc \in Stopped =>
        \A i \in 1..Len(run.sources) :
            StepFailed(i) =>
                \A j \in (i + 1)..Len(run.sources) : Consulted(j)

\* the events that create a package's directories, touch the network, unpack
\* an archive or write the ledger
SideEffects == {"mkdirs", "download", "fetchfail", "unpack", "unpackfail", "commit"}

\* C2 (as claimed): when a record of the descriptor names a type with no
\* driver, the run has no side effect for any package: no directory, no
\* download, no unpacking, no ledger line.
C2_UnknownTypeAbortsBeforeSideEffects ==
    (\E i \in 1..Len(run.sources) :
        Source(run.sources[i]).type \notin build_mapper)
    => \A k \in 1..Len(events) : events[k].ev \notin SideEffects

\* C3 (as claimed): a run with the same descriptor as the run before it, in
\* which every package succeeded, with force and purge unset, skips every
\* package: it starts no download, unpack or build.
C3_RerunSkipsEveryPackage ==
    (run.n >= 2 /\ prev.ok /\ prev.same /\ ~run.force /\ ~run.purge)
    => \A k \in 1..Len(events) :
          events[k].ev \in {"skip", "report", "merge", "mergefail"}

\* C4 (as claimed): right after write_success of a package, is_installed of
\* that package is true, whatever the ledger held before.
C4_CommitThenInstalled ==
    (events # <<>> /\ LastEv.ev = "commit")
    => is_installed(ledger, Source(run.sources[LastEv.i]))

\* C5 (as claimed): is_installed(name, url) iff the ledger holds an entry
\* written for that name whose hash is the hash of url; and it is false when
\* every entry written for the name was written for another URL.
C5_InstalledIffEntryForCurrentUrl ==
    \A r \in Records :
        LET p == Source(r)
            forName == {k \in 1..Len(entries) : entries[k].name = p.name}
        IN  /\ is_installed(ledger, p) <=>
                  \E k \in forName : url_hash(entries[k].src) = url_hash(p.src)
            /\ (\A k \in forName : entries[k].src # p.src)
                  => ~is_installed(ledger, p)

\* C6: a step of a run adds to the ledger only at the commit of a package
\* whose fetch, unpack and build all completed in this run, and a package
\* whose fetch, unpack or build failed has no commit in the run.
C6_LedgerGainsOnlyOnSuccess ==
    /\ [][(run' = run /\ ledger' # ledger) =>
            (pc = "commit" /\ PipelineOk(idx))]_vars
    /\ [](\A i \in 1..Len(run.sources) :
            (StepFailed(i) \/ HasEv("badtype", i)) => ~HasEv("commit", i))

\* a package was committed after an earlier one, and then a build failed
C6_Witness ==
    /\ pc = "aborted"
    /\ Len(run.sources) = 2
    /\ HasEv("commit", 1)
    /\ HasEv("buildfail", 2)
    /\ Len(ledger) >= 1

\* C7: without purge the ledger is append-only: every step keeps the lines
\* it held, in place, and only a commit adds one line at the end.
C7_LedgerAppendOnly ==
    [][\/ run'.n # run.n /\ run'.purge
       \/ /\ IsPrefix(ledger, ledger')
          /\ ledger' # ledger =>
                (pc = "commit" /\ Len(ledger') = Len(ledger) + 1)]_vars

\* a second run, started without purge, has added a line to a ledger that
\* held lines
C7_Witness ==
    /\ run.n = 2 /\ ~run.purge
    /\ events # <<>> /\ LastEv.ev = "commit"
    /\ Len(ledger) >= 2

---------------------------------------------------------------------------
(* find_shortest_path_to(dir, pattern, exclude), over an unpacked tree.     *)
(* The tree holds every directory of depth at most MaxDepth whose names are *)
(* taken from DirNames; the files in it, the order in which a directory     *)
(* lists its entries, the pattern and the exclusion are the inputs.         *)

MaxDepth == 2
MaxFiles == 2

\* the directory searched
Root == <<"d">>

\* the names a directory of the tree may have
DirNames == { <<"a">>, <<"c", ":">> }

\* the directories of the tree, each as the names that lead to it from Root
Dirs == SeqsUpTo(DirNames, MaxDepth)

\* str.upper() and str.lower(), a character at a time
UpperChar(c) ==
    CASE c = "m" -> "M"
      [] c = "k" -> "K"
      [] OTHER -> c

LowerChar(c) ==
    CASE c = "M" -> "m"
      [] c = "K" -> "k"
      [] OTHER -> c

ToUpper(s) == [i \in 1..Len(s) |-> UpperChar(s[i])]

ToLower(s) == [i \in 1..Len(s) |-> LowerChar(s[i])]

\* the patterns searched for: literal file names, one of mixed case
Patterns == { <<"M", "k">>, <<"m", "k">> }

\* the names of the files a directory may hold
FileNames == UNION { {p, ToUpper(p), ToLower(p)} : p \in Patterns }

\* the subsets of S of at most n elements
RECURSIVE SubsetsUpTo(_, _)
SubsetsUpTo(S, n) ==
    IF n = 0 THEN { {} }
    ELSE LET smaller == SubsetsUpTo(S, n - 1)
         IN  smaller \cup { T \cup {x} : T \in smaller, x \in S }

\* the orders in which a directory may list its subdirectories
Orders ==
    LET n == Cardinality(DirNames)
    IN  { o \in [1..n -> DirNames] : \A i, j \in 1..n : o[i] = o[j] => i = j }

\* the values of the exclude argument: None, a string, a list of strings
NoExclude == [kind |-> "none"]
Excludes ==
    { NoExclude,
      [kind |-> "str", v |-> <<"c", ":">>],
      [kind |-> "list", v |-> << <<"M", "K">>, <<"/", "a", "/">> >>] }

\* the path glob reports for file f of directory d
PathOf(d, f) ==
    Root \o Concat([i \in 1..Len(d) |-> <<"/">> \o d[i]]) \o <<"/">> \o f

\* the directories dir/** visits: the directory itself, then each
\* subdirectory in listing order, each followed by its own subtree
RECURSIVE Walk(_, _)
Walk(d, order) ==
    <<d>> \o
    (IF Len(d) >= MaxDepth THEN <<>>
     ELSE Concat([i \in 1..Len(order) |-> Walk(Append(d, order[i]), order)]))

\* glob.glob(dir + "/**/" + name, recursive=True) for a literal name
Glob(files, order, name) ==
    LET hits == SelectSeq(Walk(<<>>, order), LAMBDA d : <<d, name>> \in files)
    IN  [i \in 1..Len(hits) |-> PathOf(hits[i], name)]

\* pl = [p for p in pl if l not in p]
Without(pl, l) == SelectSeq(pl, LAMBDA p : ~Contains(p, l))

RECURSIVE WithoutAll(_, _)
WithoutAll(pl, ls) ==
    IF ls = <<>> THEN pl ELSE WithoutAll(Without(pl, Head(ls)), Tail(ls))

\* the two isinstance branches on exclude
Filter(pl, exclude) ==
    CASE exclude.kind = "str" -> Without(pl, exclude.v)
      [] exclude.kind = "list" -> WithoutAll(pl, exclude.v)
      [] OTHER -> pl

\* os.pathsep
pathsep == ":"

\* os.sep
sep == "/"

\* the sort key of the code: len(x.split(os.pathsep))
SortKey(x) == Len(Split(x, pathsep))

\* the sort key that counts directory levels: len(x.split(os.sep))
SortKeyBySep(x) == Len(Split(x, sep))

\* list.sort(key=...) is stable: x goes after every element whose key is
\* not greater than its own
RECURSIVE InsertByKey(_, _)
InsertByKey(sorted, x) ==
    IF sorted = <<>> THEN <<x>>
    ELSE IF SortKey(sorted[Len(sorted)]) <= SortKey(x) THEN Append(sorted, x)
    ELSE Append(InsertByKey(SubSeq(sorted, 1, Len(sorted) - 1), x),
                sorted[Len(sorted)])

RECURSIVE SortByKey(_)
SortByKey(pl) ==
    IF pl = <<>> THEN <<>>
    ELSE InsertByKey(SortByKey(SubSeq(pl, 1, Len(pl) - 1)), pl[Len(pl)])

\* the matches of the three globs, in discovery order, after the exclusion
Survivors(files, order, pattern, exclude) ==
    Filter(Glob(files, order, pattern)
             \o Glob(files, order, ToUpper(pattern))
             \o Glob(files, order, ToLower(pattern)),
           exclude)

\* pl[0] of an empty list
IndexError == [ok |-> FALSE, path |-> <<>>]

find_shortest_path_to(files, order, pattern, exclude) ==
    LET pl == SortByKey(Survivors(files, order, pattern, exclude))
    IN  IF pl = <<>> THEN IndexError ELSE [ok |-> TRUE, path |-> pl[1]]

\* the calls of find_shortest_path_to
FindInputs ==
    [state : {"ready"},
     files : SubsetsUpTo(Dirs \X FileNames, MaxFiles),
     order : Orders,
     pattern : Patterns,
     exclude : Excludes]

FindInit == RunInit /\ parser = NoParser /\ opt = NoOpt /\ find \in FindInputs

Find ==
    /\ find.state = "ready"
    /\ find' = [state |-> "done",
                files |-> find.files,
                order |-> find.order,
                pattern |-> find.pattern,
                exclude |-> find.exclude,
                result |-> find_shortest_path_to(find.files, find.order,
                                                 find.pattern, find.exclude)]
    /\ UNCHANGED <<runVars, parser, opt>>

FindNext == Find

SpecFind == FindInit /\ [][FindNext]_vars

---------------------------------------------------------------------------
(* Properties of find_shortest_path_to *)

\* the least element of a non-empty set of numbers
Least(S) == CHOOSE m \in S : \A n \in S : m <= n

\* C8 (as claimed): find_shortest_path_to returns, of the matches that
\* survive the exclusion, the first discovered among those with the fewest
\* segments between directory separators; with no surviving match it fails.
C8_ReturnsShallowestMatch ==
    find.state = "done" =>
        LET surv == Survivors(find.files, find.order, find.pattern, find.exclude)
            depth == [k \in 1..Len(surv) |-> SortKeyBySep(surv[k])]
            least == Least({depth[k] : k \in 1..Len(surv)})
            first == Least({k \in 1..Len(surv) : depth[k] = least})
        IN  IF surv = <<>> THEN ~find.result.ok
            ELSE find.result.ok /\ find.result.path = surv[first]

---------------------------------------------------------------------------
(* DepFileParser: the line format of deps.txt.  A file is the list of its   *)
(* lines as readlines() gives them; a dict is the sequence of its items in  *)
(* insertion order; a value is tagged as a string or a list of strings.     *)

MaxLines == 3

\* a string value, and a list value, of an attribute
Str(s) == [list |-> FALSE, v |-> s]
List(l) == [list |-> TRUE, v |-> l]

\* key in d
DictHas(d, k) == \E i \in 1..Len(d) : d[i].k = k

\* d[key]
DictGet(d, k) == d[CHOOSE i \in 1..Len(d) : d[i].k = k].v

\* d[key] = value: a key already present keeps its place
DictSet(d, k, v) ==
    IF DictHas(d, k)
    THEN [i \in 1..Len(d) |-> IF d[i].k = k THEN [k |-> k, v |-> v] ELSE d[i]]
    ELSE Append(d, [k |-> k, v |-> v])

\* the key "name"
NameKey == <<"n", "a", "m", "e">>

\* str(n) of a natural number
RECURSIVE IntStr(_)
IntStr(n) ==
    IF n < 10 THEN <<DigitChar[n + 1]>>
    ELSE IntStr(n \div 10) \o <<DigitChar[(n % 10) + 1]>>

\* "Malformed attribute line: "
MalformedPrefix ==
    <<"M", "a", "l", "f", "o", "r", "m", "e", "d", " ", "a", "t", "t", "r", "i", "b", "u", "t", "e", " ", "l", "i", "n", "e", ":", " ">>

\* the lines a file is made of: blank, comment, header, header with no name,
\* attribute with an inline value, attribute with none, indented line, line
\* with no colon, line with no name, colon alone
InputLines ==
    { <<"\n">>,
      <<"#", "c", "\n">>,
      <<"-", " ", "p", "\n">>,
      <<"-", "\n">>,
      <<"k", ":", " ", "v", "\n">>,
      <<"k", ":", "\n">>,
      <<" ", "w", "\n">>,
      <<"k", "v", "\n">>,
      <<":", " ", "v", "\n">>,
      <<":", "\n">> }

\* the files parse() may read
Files == SeqsUpTo(InputLines, MaxLines)

\* no exception
NoErr == [type |-> "none", msg |-> <<>>]

\* DepFileParser() after the readlines() of parse(): `at` is the number, in
\* the file, of the line the last call of handle_line began with
NewParser(text) ==
    [status |-> "run", text |-> text, lines |-> text, line_no |-> 1,
     current |-> <<>>, all |-> <<>>, err |-> NoErr, at |-> 0]

take_line(p) == [p EXCEPT !.lines = Tail(@), !.line_no = @ + 1]

flush(p) ==
    [p EXCEPT !.all = IF Len(p.current) > 0 THEN Append(@, p.current) ELSE @,
              !.current = <<>>]

\* the two tests of the continuation loop: re.match(r'\s', nextl) and
\* len(nextl.strip())
IsContinuation(nextl) == nextl[1] \in WS /\ Len(Strip(nextl)) > 0

\* how many lines the continuation loop takes from the head of lines
RECURSIVE ContCount(_)
ContCount(lines) ==
    IF lines # <<>> /\ IsContinuation(Head(lines))
    THEN 1 + ContCount(Tail(lines))
    ELSE 0

\* assert(len(content_arr) == 1) has failed
AssertionFailed == [list |-> FALSE, v |-> <<"AssertionError">>]

\* the value stored when nothing is asserted: an inline value with
\* continuation lines is kept as a list
CollapseKeepingList(is_array, content_arr) ==
    IF ~is_array /\ Len(content_arr) = 1 THEN Str(content_arr[1])
    ELSE List(content_arr)

\* the value stored for an attribute after the continuation loop
Collapse(is_array, content_arr) ==
    IF is_array THEN List(content_arr)
    ELSE IF Len(content_arr) = 1 THEN Str(content_arr[1])
    ELSE AssertionFailed

\* the except: branch of handle_attrib
RaiseMalformed(p, line) ==
    [p EXCEPT !.status = "error",
              !.err = [type |-> "Exception",
                       msg |-> MalformedPrefix \o IntStr(p.line_no)
                                 \o <<" ">> \o line]]

\* the text left, and right, of the first ':' of a line, stripped
NameOf(line) == Strip(SubSeq(line, 1, IndexOf(line, ":") - 1))
InlineOf(line) == Strip(SubSeq(line, IndexOf(line, ":") + 1, Len(line)))

handle_attrib(p) ==
    LET line == Head(p.lines)
        p1 == take_line(p)
        place == IndexOf(line, ":")
        parts == SelectSeq(<<NameOf(line), InlineOf(line)>>,
                           LAMBDA i : Len(i) > 0)
        is_array == ~(Len(parts) > 1)
        n == ContCount(p1.lines)
        content_arr == (IF is_array THEN <<>> ELSE <<parts[2]>>)
                         \o [i \in 1..n |-> Strip(p1.lines[i])]
        p2 == [p1 EXCEPT !.lines = SubSeq(@, n + 1, Len(@)),
                         !.line_no = @ + n]
        value == Collapse(is_array, content_arr)
    IN  IF place = 0 \/ parts = <<>> THEN RaiseMalformed(p1, line)
        ELSE IF value = AssertionFailed THEN RaiseMalformed(p2, line)
        ELSE [p2 EXCEPT !.current = DictSet(@, parts[1], value)]

handle_line(p) ==
    LET line == Head(p.lines)
    IN  IF Len(Strip(line)) = 0 THEN take_line(p)
        ELSE IF line[1] = "#" THEN take_line(p)
        ELSE IF line[1] = "-"
             THEN LET f == flush(p)
                      parts == SplitWS(Tail(line))
                  IN  IF Len(parts) >= 1
                      THEN take_line(
                             [f EXCEPT !.current =
                                 DictSet(@, NameKey, Str(parts[1]))])
                      ELSE [f EXCEPT !.status = "error",
                                     !.err = [type |-> "AssertionError",
                                              msg |-> <<>>]]
        ELSE handle_attrib(p)

ParseInit ==
    /\ RunInit
    /\ find = NoFind
    /\ opt = NoOpt
    /\ parser \in { NewParser(text) : text \in Files }

\* one turn of the loop of parse()
HandleLine ==
    /\ parser.status = "run"
    /\ parser.lines # <<>>
    /\ parser' = [handle_line(parser) EXCEPT
                     !.at = Len(parser.text) - Len(parser.lines) + 1]
    /\ UNCHANGED <<runVars, find, opt>>

\* the end of parse(): the last flush, and the records are returned
ParseEnd ==
    /\ parser.status = "run"
    /\ parser.lines = <<>>
    /\ parser' = [flush(parser) EXCEPT !.status = "done"]
    /\ UNCHANGED <<runVars, find, opt>>

ParseNext ==
    \/ HandleLine
    \/ ParseEnd

SpecParse == ParseInit /\ [][ParseNext]_vars

---------------------------------------------------------------------------
(* Properties of the parser *)

\* a line handle_line gives to handle_attrib, with a name and an inline value
HasNameAndInline(line) ==
    /\ Len(Strip(line)) > 0
    /\ line[1] \notin {"#", "-"}
    /\ IndexOf(line, ":") > 0
    /\ NameOf(line) # <<>>
    /\ InlineOf(line) # <<>>

\* C9 (as claimed): an attribute line with an inline value that is followed
\* by one or more indented non-blank lines yields a list holding the inline
\* value and then each trimmed continuation line; followed by none, it
\* yields the single inline string.
C9_InlineWithContinuationIsList ==
    [][(parser.status = "run" /\ parser.lines # <<>>
          /\ HasNameAndInline(Head(parser.lines)))
       => LET line == Head(parser.lines)
              rest == Tail(parser.lines)
              n == ContCount(rest)
              items == <<InlineOf(line)>> \o [i \in 1..n |-> Strip(rest[i])]
          IN  /\ parser'.status = "run"
              /\ DictHas(parser'.current, NameOf(line))
              /\ DictGet(parser'.current, NameOf(line)) =
                    IF n >= 1 THEN List(items) ELSE Str(InlineOf(line))]_vars

\* C9 (amended): an attribute line with a name and an inline value that is
\* followed by one or more indented non-blank lines is rejected as a
\* malformed attribute line, and nothing is stored for it; followed by none,
\* it yields the single inline string and only that line is taken.
C9_InlineWithContinuationIsRejected ==
    [][(parser.status = "run" /\ parser.lines # <<>>
          /\ HasNameAndInline(Head(parser.lines)))
       => LET line == Head(parser.lines)
              rest == Tail(parser.lines)
          IN  IF ContCount(rest) >= 1
              THEN /\ parser'.status = "error"
                   /\ parser'.err.type = "Exception"
                   /\ IsPrefix(MalformedPrefix, parser'.err.msg)
                   /\ parser'.current = parser.current
                   /\ parser'.all = parser.all
              ELSE /\ parser'.status = "run"
                   /\ DictHas(parser'.current, NameOf(line))
                   /\ DictGet(parser'.current, NameOf(line)) = Str(InlineOf(line))
                   /\ parser'.lines = rest]_vars

\* an attribute with an inline value was stored as a string, and then an
\* attribute line with an inline value and a continuation line was rejected
C9_Witness ==
    /\ parser.status = "error"
    /\ parser.at >= 2
    /\ HasNameAndInline(parser.text[parser.at])
    /\ ContCount(SubSeq(parser.text, parser.at + 1, Len(parser.text))) >= 1
    /\ HasNameAndInline(parser.text[parser.at - 1])
    /\ DictHas(parser.current, NameOf(parser.text[parser.at - 1]))
    /\ DictGet(parser.current, NameOf(parser.text[parser.at - 1]))
          = Str(InlineOf(parser.text[parser.at - 1]))

\* C10 (as claimed): the error for a malformed attribute line carries the
\* number of that line in the file, counted from 1, and the text of the line.
C10_ErrorCarriesLineNumber ==
    (parser.status = "error" /\ parser.err.type = "Exception")
    => parser.err.msg =
          MalformedPrefix \o IntStr(parser.at) \o <<" ">>
             \o parser.text[parser.at]

\* a line handle_line gives to handle_attrib
IsAttribLine(line) == Len(Strip(line)) > 0 /\ line[1] \notin {"#", "-"}

\* C11 (as claimed): an attribute line with no ':', or with nothing but
\* blanks left of its first ':', makes parsing fail: the parser stops with the
\* malformed-line error, stores nothing and returns no records.
C11_NoColonOrNoNameIsRejected ==
    [][(parser.status = "run" /\ parser.lines # <<>>
          /\ IsAttribLine(Head(parser.lines))
          /\ (IndexOf(Head(parser.lines), ":") = 0
                \/ NameOf(Head(parser.lines)) = <<>>))
       => /\ parser'.status = "error"
          /\ parser'.err.type = "Exception"
          /\ parser'.current = parser.current
          /\ parser'.all = parser.all]_vars

\* the header lines of a file, in order
HeaderLines(text) == SelectSeq(text, LAMBDA l : l[1] = "-")

\* C20 (as claimed): the records parse() returns are one per header line, in
\* order, and each has the key "name", whose value is the first token after
\* the dash of its header line.
C20_EveryRecordIsNamed ==
    parser.status = "done" =>
        LET hs == HeaderLines(parser.text)
        IN  /\ Len(parser.all) = Len(hs)
            /\ \A i \in 1..Len(parser.all) :
                  /\ DictHas(parser.all[i], NameKey)
                  /\ DictGet(parser.all[i], NameKey) = Str(SplitWS(Tail(hs[i]))[1])

---------------------------------------------------------------------------
(* The options of a record: the regularization of the loaded records and    *)
(* compute_options.  A record is a dict as the parser or json.load gives    *)
(* it; the platform is the set {platform.machine(), platform.system()}.     *)

MaxClauses == 2

\* platform.machine() and platform.system().lower()
Machines == { <<"x", "8", "6", "_", "6", "4">>, <<"a", "r", "m", "6", "4">> }
Systems == { <<"l", "i", "n", "u", "x">>, <<"d", "a", "r", "w", "i", "n">> }

\* set([platform.machine(), platform.system().lower()])
SysFlags == { {m, sy} : m \in Machines, sy \in Systems }

\* "options"
OptionsKey == <<"o", "p", "t", "i", "o", "n", "s">>

\* the keys of a record: options, options+linux, options+!linux,
\* options+x86_64+!darwin, and target, which is no options clause
RecordKeys ==
    { OptionsKey,
      <<"o", "p", "t", "i", "o", "n", "s", "+", "l", "i", "n", "u", "x">>,
      <<"o", "p", "t", "i", "o", "n", "s", "+", "!", "l", "i", "n", "u", "x">>,
      <<"o", "p", "t", "i", "o", "n", "s", "+", "x", "8", "6", "_", "6", "4", "+", "!", "d", "a", "r", "w", "i", "n">>,
      <<"t", "a", "r", "g", "e", "t">> }

\* the values of a key: two lists of option strings and an inline value
RecordValues ==
    { List(<< <<"A", " ", "1">> >>),
      List(<< <<"B">>, <<"C", " ", "0">> >>),
      Str(<<"K", " ", "V">>) }

\* the records: at most MaxClauses keys, each key once, in any order
Nodes ==
    { d \in SeqsUpTo([k : RecordKeys, v : RecordValues], MaxClauses) :
        \A i, j \in 1..Len(d) : d[i].k = d[j].k => i = j }

\* str.startswith
StartsWith(s, prefix) == IsPrefix(prefix, s)

\* list(x): a list is copied, a string gives the list of its characters
PyList(x) == IF x.list THEN x.v ELSE [i \in 1..Len(x.v) |-> <<x.v[i]>>]

\* lines 296-301, for one record
Regularize(value) ==
    [i \in 1..Len(value) |->
        IF ~StartsWith(value[i].k, OptionsKey) THEN value[i]
        ELSE [k |-> value[i].k, v |-> List(PyList(value[i].v))]]

\* flags_apply with must_have compared against itself
flags_apply_self(sys_flags, opt_flags) ==
    LET must_not_have == { Tail(opt_flags[i]) : i \in
                             { j \in 1..Len(opt_flags) : StartsWith(opt_flags[j], <<"!">>) } }
    IN  must_not_have \cap sys_flags = {}

flags_apply(sys_flags, opt_flags) ==
    LET excl == { j \in 1..Len(opt_flags) : StartsWith(opt_flags[j], <<"!">>) }
        must_have == { opt_flags[j] : j \in (1..Len(opt_flags)) \ excl }
        must_not_have == { Tail(opt_flags[j]) : j \in excl }
    IN  must_not_have \cap sys_flags = {} /\ must_have \subseteq sys_flags

\* key.split('+')[1:]
ClauseFlags(key) == Tail(Split(key, "+"))

\* compute_options that takes every clause, whatever its flags
RECURSIVE compute_all_options(_, _)
compute_all_options(node, this_system) ==
    IF node = <<>> THEN <<>>
    ELSE LET front == SubSeq(node, 1, Len(node) - 1)
             last == node[Len(node)]
         IN  compute_all_options(front, this_system) \o
             (IF StartsWith(last.k, OptionsKey) THEN last.v.v ELSE <<>>)

\* valid_opts after the loop over the keys of node, in the order of the dict
RECURSIVE compute_options(_, _)
compute_options(node, this_system) ==
    IF node = <<>> THEN <<>>
    ELSE LET front == SubSeq(node, 1, Len(node) - 1)
             last == node[Len(node)]
         IN  compute_options(front, this_system) \o
             (IF StartsWith(last.k, OptionsKey)
                    /\ flags_apply(this_system, ClauseFlags(last.k))
              THEN last.v.v ELSE <<>>)

\* a record as loaded, and the platform of the run
OptInit ==
    /\ RunInit
    /\ find = NoFind
    /\ parser = NoParser
    /\ opt \in [state : {"loaded"}, node : Nodes, this_system : SysFlags]

\* lines 296-301: value[key] = list(value[key]) for the options keys
RegularizeOptions ==
    /\ opt.state = "loaded"
    /\ opt' = [state |-> "regular", node |-> opt.node,
               this_system |-> opt.this_system,
               value |-> Regularize(opt.node)]
    /\ UNCHANGED <<runVars, find, parser>>

\* compute_options(node); `applied` keeps, for each options key in order,
\* what flags_apply returned for it
ComputeOptions ==
    /\ opt.state = "regular"
    /\ LET keys == SelectSeq([i \in 1..Len(opt.value) |-> opt.value[i].k],
                             LAMBDA k : StartsWith(k, OptionsKey))
       IN  opt' = [state |-> "computed", node |-> opt.node,
                   this_system |-> opt.this_system,
                   value |-> opt.value,
                   applied |-> [i \in 1..Len(keys) |->
                                  [key |-> keys[i],
                                   ok |-> flags_apply(opt.this_system,
                                                      ClauseFlags(keys[i]))]],
                   valid_opts |-> compute_options(opt.value, opt.this_system)]
    /\ UNCHANGED <<runVars, find, parser>>

OptNext ==
    \/ RegularizeOptions
    \/ ComputeOptions

SpecOptions == OptInit /\ [][OptNext]_vars

---------------------------------------------------------------------------
(* Properties of the options *)

\* the options clauses of a record, in the order of the record
OptionClauses(node) == SelectSeq(node, LAMBDA c : StartsWith(c.k, OptionsKey))

\* the tags a clause excludes ('!tag') and the tags it requires (bare tag)
ExcludedTags(tags) ==
    { Tail(tags[i]) : i \in { j \in 1..Len(tags) : tags[j][1] = "!" } }
RequiredTags(tags) ==
    { tags[i] : i \in { j \in 1..Len(tags) : tags[j][1] # "!" } }

\* no excluded tag is a tag of the platform, every required tag is
TagsApply(sys, tags) ==
    ExcludedTags(tags) \cap sys = {} /\ RequiredTags(tags) \subseteq sys

\* the clauses of a record that apply to the platform
ApplyingClauses(node, sys) ==
    SelectSeq(OptionClauses(node), LAMBDA c : TagsApply(sys, ClauseFlags(c.k)))

\* C12: compute_options returns the items of the options clauses whose tags
\* apply to the platform, clauses in the order of the record and items in
\* the order of the clause, and nothing else.
C12_OptionsOfApplyingClausesInOrder ==
    opt.state = "computed" =>
        LET cl == ApplyingClauses(opt.value, opt.this_system)
        IN  opt.valid_opts = Concat([i \in 1..Len(cl) |-> cl[i].v.v])

\* the record has the clauses options and options+linux, in this order, both
\* with items, and on a linux platform the items of both are returned
C12_Witness ==
    /\ opt.state = "computed"
    /\ <<"l", "i", "n", "u", "x">> \in opt.this_system
    /\ Len(opt.node) = 2
    /\ opt.node[1].k = OptionsKey /\ opt.node[1].v.list
    /\ opt.node[2].k = <<"o", "p", "t", "i", "o", "n", "s", "+", "l", "i", "n", "u", "x">> /\ opt.node[2].v.list
    /\ opt.node[1].v # opt.node[2].v
    /\ opt.valid_opts = opt.node[1].v.v \o opt.node[2].v.v

\* the same record on a darwin platform: the items of options alone
C12_WitnessDarwin ==
    /\ opt.state = "computed"
    /\ <<"d", "a", "r", "w", "i", "n">> \in opt.this_system
    /\ Len(opt.node) = 2
    /\ opt.node[1].k = OptionsKey /\ opt.node[1].v.list
    /\ opt.node[2].k = <<"o", "p", "t", "i", "o", "n", "s", "+", "l", "i", "n", "u", "x">> /\ opt.node[2].v.list
    /\ opt.valid_opts = opt.node[1].v.v

\* C13: flags_apply is true iff no excluded tag is a tag of the platform and
\* every required tag is one; a clause with no tag always applies.
C13_FlagsApplyIffExcludedAbsentRequiredPresent ==
    opt.state = "computed" =>
        \A i \in 1..Len(opt.applied) :
            LET tags == ClauseFlags(opt.applied[i].key)
            IN  /\ opt.applied[i].ok <=> TagsApply(opt.this_system, tags)
                /\ tags = <<>> => opt.applied[i].ok

\* a clause whose required tag the platform lacks was found not to apply,
\* and a clause that excludes that tag was found to apply
C13_Witness ==
    /\ opt.state = "computed"
    /\ Len(opt.applied) = 2
    /\ \E i, j \in 1..2 :
          /\ RequiredTags(ClauseFlags(opt.applied[i].key)) \ opt.this_system # {}
          /\ ~opt.applied[i].ok
          /\ ExcludedTags(ClauseFlags(opt.applied[j].key)) # {}
          /\ opt.applied[j].ok

\* the strings a clause declares: its items, or its one inline value
Declared(c) == IF c.v.list THEN c.v.v ELSE <<c.v.v>>

\* C19 (as claimed): the resolved options are the option strings declared in
\* the applying clauses, a clause with an inline value giving that one string.
C19_InlineOptionIsOneString ==
    opt.state = "computed" =>
        LET cl == ApplyingClauses(opt.node, opt.this_system)
        IN  opt.valid_opts = Concat([i \in 1..Len(cl) |-> Declared(cl[i])])

---------------------------------------------------------------------------
(* Properties of the runs: force, the report, attribution, the order of the *)
(* steps of a package                                                       *)

\* the place in events of event e of package i
Pos(e, i) == CHOOSE k \in 1..Len(events) : events[k] = Ev(e, i)

\* package i was fetched: downloaded, or found in the cache
Fetched(i) == HasEv("download", i) \/ HasEv("cached", i)

\* every record of the run has the attributes its type needs, and a type
\* that has a driver
ValidDescriptor ==
    \A i \in 1..Len(run.sources) :
        /\ ~SourceRaises(run.sources[i])
        /\ Source(run.sources[i]).type \in build_mapper

\* C14 (as claimed): when a run with force has ended, no listed package was
\* skipped: each one entered the pipeline and its fetch was attempted,
\* whatever the ledger held.
C14_ForceAttemptsEveryPackage ==
    (run.n >= 1 /\ run.force /\ ~run.purge /\ ValidDescriptor /\ pc \in Stopped)
    => \A i \in 1..Len(run.sources) :
          /\ ~HasEv("skip", i)
          /\ HasEv("mkdirs", i)
          /\ Fetched(i) \/ HasEv("fetchfail", i)

\* C15 (as claimed): a run in which the fetch, unpack or build of a package
\* failed has, once it has ended, reached the report, and `failed` holds the
\* name of every such package.
C15_FailedPackagesAreReported ==
    (pc \in Stopped /\ \E i \in 1..Len(run.sources) : StepFailed(i))
    => /\ HasEv("report", 0)
       /\ \A i \in 1..Len(run.sources) :
             StepFailed(i) =>
                \E k \in 1..Len(failed) : failed[k] = Source(run.sources[i]).name

\* C16 (as claimed): a run that has ended after it began to process a
\* non-empty package list has run the attribution merge step.
C16_MergeRunsAfterEveryRun ==
    (pc \in Stopped /\ run.sources # <<>> /\ ValidDescriptor
       /\ \E k \in 1..Len(events) : events[k].i >= 1)
    => HasEv("merge", 0) \/ HasEv("mergefail", 0)

\* C17: attribution never blocks installation: after find_write_attribution,
\* with the fragment written or with a warning, the loop goes on to the
\* cleanup with the ledger untouched; a package whose attribution gave a
\* warning is committed, and after its commit the loop is at the next package.
C17_AttributionNeverBlocks ==
    /\ [][pc = "attrib" =>
            (pc' = "clean" /\ ledger' = ledger /\ idx' = idx)]_vars
    /\ [][(pc = "commit" /\ HasEv("attribwarn", idx)) =>
            (/\ pc' = "loop" /\ idx' = idx + 1
             /\ ledger' = Append(ledger, Pkg.name \o <<":">> \o url_hash(Pkg.src)
                                           \o <<"\n">>))]_vars
    /\ [](\A i \in 1..Len(run.sources) :
            (HasEv("attribwarn", i) /\ ~(idx = i /\ pc \in {"clean", "commit"}))
            => HasEv("commit", i))

\* the attribution of the first package gave a warning, the package was
\* committed, and the second package has entered the pipeline
C17_Witness ==
    /\ HasEv("build", 1)
    /\ HasEv("attribwarn", 1)
    /\ HasEv("commit", 1)
    /\ HasEv("mkdirs", 2)
    /\ Len(ledger) >= 1

\* the steps of package i before its commit, in the order of the loop
OrderedUpToAttribution(i) ==
    /\ Fetched(i) /\ HasEv("unpack", i) /\ HasEv("build", i)
    /\ HasEv("attrib", i) \/ HasEv("attribwarn", i)
    /\ LET fetch == IF HasEv("download", i) THEN Pos("download", i)
                    ELSE Pos("cached", i)
           attrib == IF HasEv("attrib", i) THEN Pos("attrib", i)
                     ELSE Pos("attribwarn", i)
       IN  /\ fetch < Pos("unpack", i)
           /\ Pos("unpack", i) < Pos("build", i)
           /\ Pos("build", i) < attrib
           /\ attrib < Pos("commit", i)

\* C18 (as claimed): the steps of a committed package are in the order fetch,
\* unpack, build, attribution, commit, cleanup: the ledger line is appended
\* before the working directory is removed.
C18_CommitBeforeCleanup ==
    \A i \in 1..Len(run.sources) :
        HasEv("commit", i) =>
            /\ OrderedUpToAttribution(i)
            /\ HasEv("clean", i) => Pos("commit", i) < Pos("clean", i)

\* C18 (amended): the steps of a committed package are in the order fetch,
\* unpack, build, attribution, cleanup, commit: the working directory is
\* removed after attribution and before the ledger line is appended.
C18_CleanupBeforeCommit ==
    \A i \in 1..Len(run.sources) :
        HasEv("commit", i) =>
            /\ OrderedUpToAttribution(i)
            /\ HasEv("clean", i)
            /\ (IF HasEv("attrib", i) THEN Pos("attrib", i)
                ELSE Pos("attribwarn", i)) < Pos("clean", i)
            /\ Pos("clean", i) < Pos("commit", i)

\* two packages went through the whole pipeline in one run, one of them
\* from the cache
C18_Witness ==
    /\ Len(run.sources) = 2
    /\ HasEv("commit", 1) /\ HasEv("commit", 2)
    /\ HasEv("clean", 1) /\ HasEv("clean", 2)
    /\ HasEv("cached", 1) \/ HasEv("cached", 2)

---------------------------------------------------------------------------
(* Runs of the script, one after the other without purge, on a descriptor   *)
(* of one package whose URL may change from run to run.                     *)

MaxReruns == 3

\* the package a, from one URL or from another with the same last component
RerunRecords ==
    { Rec(<<"a">>, PKGType_CMAKE, U1),
      Rec(<<"a">>, PKGType_CMAKE, U2) }

RerunDescriptors == { <<r>> : r \in RerunRecords }

\* the script is started without purge, at most MaxReruns times
Rerun(force, sources) ==
    /\ run.n < MaxReruns
    /\ BeginRun(force, FALSE, sources)

RerunNext ==
    \/ \E force \in BOOLEAN, sources \in RerunDescriptors : Rerun(force, sources)
    \/ LoopHead
    \/ MakeDirs
    \/ Fetch
    \/ Unpack
    \/ Build
    \/ Attribution
    \/ Clean
    \/ Commit
    \/ Report
    \/ MergeAttribution

SpecRerun == Init /\ [][RerunNext]_vars

\* the URL of the last successful build of a name: of the last ledger line
\* written for it
LastBuiltFrom(name) ==
    LET ks == {k \in 1..Len(entries) : entries[k].name = name}
    IN  entries[CHOOSE k \in ks : \A j \in ks : j <= k].src

C22_CommittedArchiveIsFromUrl ==
    (events # <<>> /\ LastEv.ev = "commit") =>
        LET pkg == Source(run.sources[LastEv.i])
        IN  /\ pkg.packfile \in DOMAIN cache
            /\ cache[pkg.packfile] = pkg.src

=============================================================================
